---- MODULE Spec2Model ----
(***************************************************************************)
(* SafeLand: the result cache (backend/cache.py), the elevation source     *)
(* (backend/data_sources/bhuvan_api.py, scripts/enrich_with_indian_        *)
(* sources.py), the flood-history source (sentinel_processor.py), the      *)
(* serving endpoint (backend/app.py), the raster sampling script           *)
(* (scripts/add_non_flooded_samples.py), the zone classifier               *)
(* (ksdma_zones.py), the slope functions and the waterway measures         *)
(* (osm_processor.py and the NumPy code of the enrich script).             *)
(*                                                                         *)
(* Elevations are whole metres (50.0 is written 50); wall-clock time is in *)
(* whole seconds.  One call of a cached function is one step: both reads   *)
(* of time.time() inside cache_result.wrapper see the same second.         *)
(***************************************************************************)
EXTENDS Integers, Sequences, FiniteSets, TLC

VARIABLES
    now,            \* time.time(), seconds
    ticks,          \* how many times the clock has been advanced
    cache_store,    \* cache.py:7, cache_key -> [data, timestamp]
    expiry_hours,   \* the expiry_hours the generic cached function is decorated with
    last,           \* observation of the most recent call (NoCall after any other step)
    provider,       \* what the elevation provider answers to a single-point request right now
    zones_data,     \* KSDMAZones.zones_data: None or the loaded zone map
    flood_data,     \* SentinelProcessor.flood_data: None or the loaded footprint layer
    elev_failed,    \* the cached get_elevation entry was stored from a failed provider call
    n_coords,       \* fetch_elevations_batch: len(lats)
    batch_size,     \* fetch_elevations_batch: batch_size
    batch_i,        \* fetch_elevations_batch: the loop variable i
    elevations,     \* fetch_elevations_batch: the result list
    pc,             \* fetch_elevations_batch: "loop" or "done"
    model_loaded,   \* app.py: model and encoder were found and loaded at import
    feature_columns,\* train_model.py: the columns the saved model was fitted on
    rasters,        \* add_non_flooded_samples.py: year -> the loaded flood raster
    terrain,        \* get_slope / compute_slopes: sample point -> what the elevation provider answers there
    radius,         \* get_slope: the radius argument, metres
    waterways,      \* the waterway geometry around the query point: a list of ways
    net,            \* the operation that is waiting on an external network call, or None
    requests,       \* fetch_elevations_batch: how many batch and single-point requests were sent
    workers,        \* threads inside cache_result.wrapper: worker -> where it is and what it holds
    invocations,    \* how often the wrapped function was called by the workers
    files,          \* the data files on disk: present with content, absent or unparsable
    constructed,    \* KSDMAZones() and SentinelProcessor() have been constructed
    enrich,         \* enrich_with_indian_sources.main: its position, inputs and output file
    sampling        \* generate_non_flood_samples: its loop state

cacheVars == <<now, ticks, cache_store, expiry_hours, provider, zones_data, flood_data,
               elev_failed>>
batchVars == <<n_coords, batch_size, batch_i, elevations, pc, requests>>
serveVars == <<model_loaded, feature_columns>>
lateVars == <<workers, invocations, files, constructed, enrich, sampling>>
extraVars == <<terrain, radius, waterways, net, lateVars>>
vars == <<cacheVars, batchVars, serveVars, rasters, extraVars, last>>

\* ------------------------------------------------------------------ bounds
MaxTicks == 2
MaxArg == 1
MaxVal == 2
MaxCoords == 3
MaxBatch == 2
MaxDim == 2
MaxFeatures == 4
MaxMapFeatures == 2
MaxWays == 2

\* --------------------------------------------------------------- constants
DefaultExpiryHours == 24
WeekExpiryHours == 168
ElevationExpiryHours == 720
SecondsPerHour == 3600

NoCall == [kind |-> "none"]
NoEntry == [kind |-> "absent"]
\* stands for "no value: the call raised" where a value is expected
Raise == -9001
\* JSON null / Python None where a number is expected
Null == -9002
None == [kind |-> "None"]

\* ---------------------------------------------------------------- cache.py
\* cache_key = f"{func.__name__}:{args}:{kwargs}"
CacheKey(fname, args, kwargs) == <<fname, args, kwargs>>

\* cache_store[cache_key] = (result, time.time())
Put(store, key, data, t) ==
    [k \in (DOMAIN store) \cup {key} |->
        IF k = key THEN [data |-> data, timestamp |-> t] ELSE store[k]]

\* mutation of Fresh: an entry exactly expiry_hours old still counts as valid
FreshInclusive(entry, E, t) == t - entry.timestamp <= E * SecondsPerHour

\* if time.time() - timestamp < expiry_hours * 3600
Fresh(entry, E, t) == t - entry.timestamp < E * SecondsPerHour

EntryOf(store, key) == IF key \in DOMAIN store THEN store[key] ELSE NoEntry

\* mutation of wrapper: an expired entry is deleted before func is called
wrapperEvicting(store, key, E, t, inner) ==
    IF key \in DOMAIN store /\ Fresh(store[key], E, t)
    THEN [store |-> store, data |-> store[key].data, raised |-> FALSE, invoked |-> FALSE]
    ELSE IF inner.raised
         THEN [store |-> [k \in (DOMAIN inner.store) \ {key} |-> inner.store[k]],
               data |-> Raise, raised |-> TRUE, invoked |-> TRUE]
         ELSE [store |-> Put(inner.store, key, inner.data, t),
               data |-> inner.data, raised |-> FALSE, invoked |-> TRUE]

\* cache_result(expiry_hours=E)(func)(*args): `inner` is what running func on
\* `store` yields, [store, data, raised]; it is used only on a miss or expiry.
wrapper(store, key, E, t, inner) ==
    IF key \in DOMAIN store /\ Fresh(store[key], E, t)
    THEN [store |-> store, data |-> store[key].data, raised |-> FALSE, invoked |-> FALSE]
    ELSE IF inner.raised
         THEN [store |-> inner.store, data |-> Raise, raised |-> TRUE, invoked |-> TRUE]
         ELSE [store |-> Put(inner.store, key, inner.data, t),
               data |-> inner.data, raised |-> FALSE, invoked |-> TRUE]

\* A wrapped function that touches no cached function itself
Leaf(store, outcome) ==
    [store |-> store, data |-> outcome, raised |-> (outcome = Raise)]

\* The clock jumps used to reach the expiry boundaries
Jumps(E) == {1, E * SecondsPerHour - 1}

\* ------------------------------------------- data_sources/bhuvan_api.py
DefaultElevation == 50
ElevValues == {0, 20, 150}
StatusOK == 200
StatusURITooLong == 414
StatusServerError == 500
\* no status: requests.get raised (timeout, connection error)
StatusNone == 0

\* A provider answer: status and, for 200, the JSON body's "elevation" list
\* (present FALSE: the body has no "elevation" field)
Response(status, present, list) == [status |-> status, present |-> present, list |-> list]
FailedResponses ==
    {Response(st, FALSE, << >>) : st \in {StatusURITooLong, StatusServerError, StatusNone}}
SingleResponses ==
    {Response(StatusOK, TRUE, <<v>>) : v \in ElevValues \cup {Null}}
        \cup {Response(StatusOK, FALSE, << >>)} \cup FailedResponses

\* the body of BhuvanAPI.get_elevation: the value returned for one provider answer
GetElevationBody(resp) ==
    IF resp.status = StatusNone THEN DefaultElevation            \* except: return 50.0
    ELSE IF resp.status = StatusOK
    THEN LET list == IF resp.present THEN resp.list ELSE <<0>>   \* data.get('elevation', [0])
         IN  IF Len(list) = 0 THEN DefaultElevation              \* IndexError, caught
             ELSE IF list[1] = Null THEN DefaultElevation        \* float(None) raises, caught
             ELSE list[1]
    ELSE DefaultElevation                                        \* else: return 50.0

\* the singleton's coordinate arguments (self, lat, lon)
CoordArgs(self) == <<self, 1, 1>>

\* get_elevation(*args) for any coordinate arguments
get_elevation_at(store, t, resp, args) ==
    wrapper(store, CacheKey("get_elevation", args, << >>),
            ElevationExpiryHours, t, Leaf(store, GetElevationBody(resp)))

get_elevation(store, t, resp) == get_elevation_at(store, t, resp, CoordArgs("bhuvan_api"))

\* -------------------------------------------- data_sources/ksdma_zones.py
DefaultZone == 3

\* mutation of ZoneOfElevation: an elevation of exactly 10 still counts as zone 5
ZoneOfElevationInclusive(e) ==
    IF e <= 10 THEN 5
    ELSE IF e < 30 THEN 4
    ELSE IF e < 60 THEN 3
    ELSE IF e < 100 THEN 2
    ELSE 1

\* the elevation rule of the fallback branch
ZoneOfElevation(e) ==
    IF e < 10 THEN 5
    ELSE IF e < 30 THEN 4
    ELSE IF e < 60 THEN 3
    ELSE IF e < 100 THEN 2
    ELSE 1

\* the "vulnerability" property is not in the feature's properties
Absent == -9003
\* the "vulnerability" property is text that int() does not parse
NonNumeric == -9004
\* what a feature may carry as its "vulnerability" property
VulnerabilityValues == {0, 1, 3, 5, 7, Absent, NonNumeric, Null}

\* a feature of a loaded map, seen from the query point: its geometry contains
\* the point ("in"), does not ("out"), or shape() raises on it ("bad")
Geoms == {"in", "out"}
ZoneFeatures == [geom : Geoms, vulnerability : VulnerabilityValues]

RECURSIVE SeqsUpTo(_, _)
SeqsUpTo(S, n) ==
    IF n = 0 THEN {<< >>}
    ELSE LET shorter == SeqsUpTo(S, n - 1)
         IN  shorter \cup {Append(q, x) : q \in {r \in shorter : Len(r) = n - 1}, x \in S}

\* zone_level = feature['properties'].get('vulnerability', 3); int(zone_level)
ZoneLevelInt(v) ==
    IF v = Absent THEN DefaultZone
    ELSE IF v = NonNumeric \/ v = Null THEN Raise       \* ValueError, TypeError
    ELSE v

FirstOf(S) == CHOOSE i \in S : \A j \in S : i <= j

\* mutation of PolygonZone: the loop keeps the last feature it stops at
PolygonZoneLastWins(features) ==
    LET stops == {i \in 1..Len(features) : features[i].geom # "out"}
    IN  IF stops = {} THEN DefaultZone
        ELSE LET feature == features[CHOOSE i \in stops : \A j \in stops : i >= j]
                 level == ZoneLevelInt(feature.vulnerability)
             IN  IF feature.geom = "bad" \/ level = Raise THEN DefaultZone ELSE level

\* the polygon branch: the loop stops at the first feature that contains the
\* point (return int(zone_level)) or raises (except: return 3); else return 3
PolygonZone(features) ==
    LET stops == {i \in 1..Len(features) : features[i].geom # "out"}
    IN  IF stops = {} THEN DefaultZone
        ELSE LET feature == features[FirstOf(stops)]
                 level == ZoneLevelInt(feature.vulnerability)
             IN  IF feature.geom = "bad" \/ level = Raise THEN DefaultZone ELSE level

VulnerabilityZoneBody(store, t, resp, zd) ==
    IF zd = None
    THEN LET e == get_elevation(store, t, resp)
         IN  [store |-> e.store, data |-> ZoneOfElevation(e.data), raised |-> FALSE]
    ELSE [store |-> store, data |-> PolygonZone(zd.features), raised |-> FALSE]

get_vulnerability_zone(store, t, resp, zd) ==
    wrapper(store, CacheKey("get_vulnerability_zone", CoordArgs("ksdma_zones"), << >>),
            ElevationExpiryHours, t, VulnerabilityZoneBody(store, t, resp, zd))

\* --------------------------------------- data_sources/sentinel_processor.py
\* the polygon branch: number of containing features, any exception gives 0
RECURSIVE PolygonCount(_, _)
PolygonCount(features, flood_count) ==
    IF features = << >> THEN flood_count
    ELSE IF Head(features) = "bad" THEN 0
    ELSE PolygonCount(Tail(features),
                      IF Head(features) = "in" THEN flood_count + 1 ELSE flood_count)

\* mutation of FloodFrequencyBody: an elevation of exactly 10 m still counts as low
FloodFrequencyBodyInclusive(store, t, resp, zd, fd) ==
    IF fd = None
    THEN LET e == get_elevation(store, t, resp)
             z == get_vulnerability_zone(e.store, t, resp, zd)
         IN  [store |-> z.store,
              data |-> IF e.data <= 10 /\ z.data >= 4 THEN 3
                       ELSE IF e.data < 30 /\ z.data >= 3 THEN 1
                       ELSE 0,
              raised |-> FALSE]
    ELSE [store |-> store, data |-> PolygonCount(fd.features, 0), raised |-> FALSE]

FloodFrequencyBody(store, t, resp, zd, fd) ==
    IF fd = None
    THEN LET e == get_elevation(store, t, resp)
             z == get_vulnerability_zone(e.store, t, resp, zd)
         IN  [store |-> z.store,
              data |-> IF e.data < 10 /\ z.data >= 4 THEN 3
                       ELSE IF e.data < 30 /\ z.data >= 3 THEN 1
                       ELSE 0,
              raised |-> FALSE]
    ELSE [store |-> store, data |-> PolygonCount(fd.features, 0), raised |-> FALSE]

get_flood_frequency(store, t, resp, zd, fd) ==
    wrapper(store, CacheKey("get_flood_frequency", CoordArgs("sentinel_processor"), << >>),
            ElevationExpiryHours, t, FloodFrequencyBody(store, t, resp, zd, fd))

FloodHistoryBody(store, t, resp, zd, fd) ==
    LET count == get_flood_frequency(store, t, resp, zd, fd)
    IN  [store |-> count.store, data |-> IF count.data > 0 THEN 1 ELSE 0, raised |-> FALSE]

get_flood_history(store, t, resp, zd, fd) ==
    wrapper(store, CacheKey("get_flood_history", CoordArgs("sentinel_processor"), << >>),
            ElevationExpiryHours, t, FloodHistoryBody(store, t, resp, zd, fd))

\* "High" if flood_count >= 2 else "Medium" if flood_count == 1 else "Low"
risk_category(flood_count) ==
    IF flood_count >= 2 THEN "High" ELSE IF flood_count = 1 THEN "Medium" ELSE "Low"

\* not cached itself; reads the count through the cached get_flood_frequency
get_flood_events_detail(store, t, resp, zd, fd) ==
    LET flood_count == get_flood_frequency(store, t, resp, zd, fd)
    IN  [store |-> flood_count.store,
         data |-> [total_events |-> flood_count.data,
                   flooded_2018 |-> flood_count.data >= 1,
                   flooded_2019 |-> flood_count.data >= 2,
                   flooded_2021 |-> flood_count.data >= 3,
                   risk_category |-> risk_category(flood_count.data)]]

\* ------------------------------------------------------- generic cache spec
ExpiryChoices == {DefaultExpiryHours, WeekExpiryHours, ElevationExpiryHours}

\* fetch_elevations_batch is not running
BatchIdle ==
    /\ n_coords = 0
    /\ batch_size = 1
    /\ batch_i = 0
    /\ elevations = << >>
    /\ pc = "done"
    /\ requests = [batch |-> 0, single |-> << >>]

\* ------------------------------------------------------ ml/train_model.py
BASE_FEATURES ==
    <<"latitude", "longitude", "flooded_2018", "flooded_2019", "flooded_2021",
      "flood_history_count">>
ENHANCED_FEATURES ==
    BASE_FEATURES \o <<"ksdma_zone", "elevation", "slope", "river_distance", "drainage_density">>

\* the backend is not serving
ServeIdle ==
    /\ model_loaded = FALSE
    /\ feature_columns = BASE_FEATURES

\* ------------------------------------- scripts/add_non_flooded_samples.py
Years == {2018, 2019, 2021}
YearOrder == <<2018, 2019, 2021>>

\* no raster is loaded
RasterIdle == rasters = [y \in Years |-> [h |-> 1, w |-> 1, content |-> "dry"]]

\* no slope query, no waterway index and no network call is in play
\* no worker thread, no construction and no script runs
LateIdle ==
    /\ workers = None
    /\ invocations = 0
    /\ files = None
    /\ constructed = FALSE
    /\ enrich = None
    /\ sampling = None

ExtraIdle ==
    /\ LateIdle
    /\ terrain = None
    /\ radius = 0
    /\ waterways = None
    /\ net = None

InitCache ==
    /\ ExtraIdle
    /\ BatchIdle
    /\ ServeIdle
    /\ RasterIdle
    /\ now = 0
    /\ ticks = 0
    /\ cache_store = << >>
    /\ expiry_hours \in ExpiryChoices
    /\ last = NoCall
    /\ provider = Response(StatusNone, FALSE, << >>)
    /\ zones_data = None
    /\ flood_data = None
    /\ elev_failed = FALSE

\* time passes between calls
Tick ==
    /\ ticks < MaxTicks
    /\ \E d \in Jumps(expiry_hours) : now' = now + d
    /\ ticks' = ticks + 1
    /\ last' = NoCall
    /\ UNCHANGED <<cache_store, expiry_hours, provider, zones_data, flood_data, elev_failed,
                   batchVars, serveVars, rasters, extraVars>>

\* expensive_api_call(lat, lon) decorated with @cache_result(expiry_hours)
CallCached ==
    \E lat \in 1..MaxArg, outcome \in (1..MaxVal) \cup {Raise} :
        LET key == CacheKey("expensive_api_call", <<lat, 1>>, << >>)
            res == wrapper(cache_store, key, expiry_hours, now, Leaf(cache_store, outcome))
        IN  /\ cache_store' = res.store
            /\ last' = [kind |-> "call", key |-> key, E |-> expiry_hours, t |-> now,
                        pre |-> EntryOf(cache_store, key), outcome |-> outcome,
                        data |-> res.data, raised |-> res.raised, invoked |-> res.invoked]
            /\ UNCHANGED <<now, ticks, expiry_hours, provider, zones_data, flood_data, elev_failed,
                         batchVars, serveVars, rasters, extraVars>>

NextCache == Tick \/ CallCached

SpecCache == InitCache /\ [][NextCache]_vars

\* ------------------------------------------ the cached sources, over time
ElevationKey == CacheKey("get_elevation", CoordArgs("bhuvan_api"), << >>)

\* a 200 answer carrying a number for the coordinate
Healthy(resp) ==
    resp.status = StatusOK /\ resp.present /\ Len(resp.list) = 1 /\ resp.list[1] # Null

FootprintLayers == {[features |-> f] : f \in SeqsUpTo(Geoms, MaxFeatures)}

\* the effect of one call `res` of source function fn on the state
Observe(fn, res) ==
    /\ cache_store' = res.store
    /\ elev_failed' =
           IF EntryOf(res.store, ElevationKey) # EntryOf(cache_store, ElevationKey)
           THEN provider.status # StatusOK
           ELSE elev_failed
    /\ last' = [kind |-> "call", fn |-> fn, t |-> now, data |-> res.data,
                pre_failed |-> elev_failed]
    /\ UNCHANGED <<now, ticks, expiry_hours, provider, zones_data, flood_data, batchVars, serveVars, rasters, extraVars>>

\* the provider starts answering differently (fails, recovers, other data)
ProviderChanges ==
    /\ provider' \in SingleResponses \ {provider}
    /\ last' = NoCall
    /\ UNCHANGED <<now, ticks, cache_store, expiry_hours, zones_data, flood_data, elev_failed,
                   batchVars, serveVars, rasters, extraVars>>

CallGetElevation ==
    Observe("get_elevation", get_elevation(cache_store, now, provider))

CallGetVulnerabilityZone ==
    Observe("get_vulnerability_zone",
            get_vulnerability_zone(cache_store, now, provider, zones_data))

CallGetFloodFrequency ==
    Observe("get_flood_frequency",
            get_flood_frequency(cache_store, now, provider, zones_data, flood_data))

CallGetFloodHistory ==
    Observe("get_flood_history",
            get_flood_history(cache_store, now, provider, zones_data, flood_data))

CallGetFloodEventsDetail ==
    Observe("get_flood_events_detail",
            get_flood_events_detail(cache_store, now, provider, zones_data, flood_data))

\* no footprint file: SentinelProcessor answers from elevation and zone
InitFallback ==
    /\ ExtraIdle
    /\ BatchIdle
    /\ ServeIdle
    /\ RasterIdle
    /\ now = 0
    /\ ticks = 0
    /\ cache_store = << >>
    /\ expiry_hours = ElevationExpiryHours
    /\ last = NoCall
    /\ provider \in SingleResponses
    /\ zones_data = None
    /\ flood_data = None
    /\ elev_failed = FALSE

NextFallback ==
    \/ Tick
    \/ ProviderChanges
    \/ CallGetElevation
    \/ CallGetVulnerabilityZone
    \/ CallGetFloodFrequency
    \/ CallGetFloodHistory

SpecFallback == InitFallback /\ [][NextFallback]_vars

\* a footprint layer is loaded: SentinelProcessor answers by polygon containment
InitFootprint ==
    /\ ExtraIdle
    /\ BatchIdle
    /\ ServeIdle
    /\ RasterIdle
    /\ now = 0
    /\ ticks = 0
    /\ cache_store = << >>
    /\ expiry_hours = ElevationExpiryHours
    /\ last = NoCall
    /\ provider \in FailedResponses
    /\ zones_data = None
    /\ flood_data \in FootprintLayers
    /\ elev_failed = FALSE

NextFootprint ==
    \/ Tick
    \/ CallGetFloodFrequency
    \/ CallGetFloodHistory
    \/ CallGetFloodEventsDetail

SpecFootprint == InitFootprint /\ [][NextFootprint]_vars

\* -------------------------- scripts/enrich_with_indian_sources.py, elevation
\* the cache is not in use
CacheIdle ==
    /\ now = 0
    /\ ticks = 0
    /\ cache_store = << >>
    /\ expiry_hours = DefaultExpiryHours
    /\ provider = Response(StatusNone, FALSE, << >>)
    /\ zones_data = None
    /\ flood_data = None
    /\ elev_failed = FALSE

Min(a, b) == IF a < b THEN a ELSE b

\* what the provider may answer to a request for `len` coordinates: a failure, a
\* body without "elevation", or a list of numbers and nulls of any length up to len + 1
BatchResponses(len) ==
    FailedResponses \cup {Response(StatusOK, FALSE, << >>)}
        \cup {Response(StatusOK, TRUE, l) : l \in SeqsUpTo(ElevValues \cup {Null}, len + 1)}

\* for j, v in enumerate(r.json().get("elevation", [])): if v is not None:
\* elevations[i+j] = float(v); an index past the end raises into the outer except
WriteBatch(elevs, i, list) ==
    [k \in 1..Len(elevs) |->
        IF k - i >= 1 /\ k - i <= Len(list) /\ list[k - i] # Null
        THEN list[k - i] ELSE elevs[k]]

\* the per-point request of the 414 branch, for one coordinate holding `old`
SingleRetryValue(old, r2) ==
    IF r2.status = StatusNone THEN old                            \* except: pass
    ELSE IF r2.status = StatusOK
    THEN LET list == IF r2.present THEN r2.list ELSE <<DefaultElevation>>
         IN  IF Len(list) = 0 THEN old                            \* IndexError, except: pass
             ELSE IF list[1] = Null \/ list[1] = 0 THEN DefaultElevation  \* float(v) if v else 50.0
             ELSE list[1]
    ELSE old

RetrySingles(elevs, i, len, singles) ==
    [k \in 1..Len(elevs) |->
        IF k > i /\ k <= i + len THEN SingleRetryValue(elevs[k], singles[k - i]) ELSE elevs[k]]

NoRequests == << >>

InitBatch ==
    /\ ExtraIdle
    /\ CacheIdle
    /\ ServeIdle
    /\ RasterIdle
    /\ n_coords \in 0..MaxCoords
    /\ batch_size \in 1..MaxBatch
    /\ batch_i = 0
    /\ elevations = [k \in 1..n_coords |-> DefaultElevation]
    /\ pc = "loop"
    /\ last = NoCall
    /\ requests = [batch |-> 0, single |-> [k \in 1..n_coords |-> 0]]

\* mutation of SinglesSent: every per-point request is sent a second time
SinglesSentTwice(single, i, len) ==
    [k \in 1..Len(single) |-> IF k > i /\ k <= i + len THEN single[k] + 2 ELSE single[k]]

\* for j, (la, lo) in enumerate(zip(bl, blo)): one requests.get per coordinate
SinglesSent(single, i, len) ==
    [k \in 1..Len(single) |-> IF k > i /\ k <= i + len THEN single[k] + 1 ELSE single[k]]

\* one iteration of the loop over range(0, len(lats), batch_size)
FetchBatch ==
    /\ pc = "loop"
    /\ batch_i < n_coords
    /\ LET len == Min(batch_size, n_coords - batch_i)
       IN  \E resp \in BatchResponses(len) :
               \/ /\ resp.status = StatusOK
                  /\ elevations' = WriteBatch(elevations, batch_i,
                                              IF resp.present THEN resp.list ELSE << >>)
                  /\ last' = [kind |-> "batch", i |-> batch_i, len |-> len, resp |-> resp,
                              singles |-> NoRequests]
               \/ /\ resp.status = StatusURITooLong
                  /\ \E singles \in [1..len -> SingleResponses] :
                         /\ elevations' = RetrySingles(elevations, batch_i, len, singles)
                         /\ last' = [kind |-> "batch", i |-> batch_i, len |-> len,
                                     resp |-> resp, singles |-> singles]
               \/ /\ resp.status \notin {StatusOK, StatusURITooLong}
                  /\ elevations' = elevations
                  /\ last' = [kind |-> "batch", i |-> batch_i, len |-> len, resp |-> resp,
                              singles |-> NoRequests]
    /\ batch_i' = batch_i + batch_size
    /\ requests' = [batch |-> requests.batch + 1,
                    single |-> IF last'.resp.status = StatusURITooLong
                               THEN SinglesSent(requests.single, batch_i, last'.len)
                               ELSE requests.single]
    /\ UNCHANGED <<n_coords, batch_size, pc, cacheVars, serveVars, rasters, extraVars>>

\* the loop is exhausted: return elevations
FetchReturn ==
    /\ pc = "loop"
    /\ batch_i >= n_coords
    /\ pc' = "done"
    /\ last' = NoCall
    /\ UNCHANGED <<n_coords, batch_size, batch_i, elevations, requests, cacheVars, serveVars,
                   rasters, extraVars>>

NextBatch == FetchBatch \/ FetchReturn

SpecBatch == InitBatch /\ [][NextBatch]_vars

\* the provider's answer for the j-th coordinate of the observed batch, as a
\* single-point answer
AnswerFor(obs, j) ==
    IF obs.resp.status = StatusURITooLong THEN obs.singles[j]
    ELSE IF obs.resp.status = StatusOK /\ obs.resp.present
    THEN Response(StatusOK, TRUE,
                  IF j <= Len(obs.resp.list) THEN <<obs.resp.list[j]>> ELSE << >>)
    ELSE obs.resp

\* ---------------------------------------------------------- backend/app.py
RainValues == {0, 50, 100}
SoilValues == {0, 1}
FallbackRainfall == 50
FallbackSoilMoisture == 40
FallbackElevation == 10

WeatherFailed == [raised |-> TRUE, rainfall |-> Null, soil |-> Null]
\* what the forecast request yields: an exception, or the first daily
\* precipitation_sum and the first hourly soil_moisture_0_to_1cm (either may be null)
WeatherAnswers ==
    {WeatherFailed}
        \cup [raised : {FALSE}, rainfall : RainValues \cup {Null}, soil : SoilValues \cup {Null}]
\* what the elevation request yields: an exception or the first "elevation"
ElevAnswers == {Raise} \cup ElevValues

\* fetch_environmental_data: one try block around both requests
fetch_environmental_data(weather, elev) ==
    IF weather.raised \/ weather.soil = Null \/ elev = Raise
    THEN <<FallbackRainfall, FallbackSoilMoisture, FallbackElevation>>
    ELSE <<weather.rainfall, weather.soil * 100, elev>>

\* the keys of the features dict, in insertion order: the DataFrame's columns
ServedColumns == <<"rainfall", "water_level", "elevation", "soil_moisture", "river_distance">>

RiskLabels == {"Low", "Medium", "High"}
NoBody == [kind |-> "null"]
\* request.json: null, or an object whose latitude/longitude are present or not
Bodies == {NoBody} \cup [kind : {"object"}, latitude : {Null, 9}, longitude : {Null, 76}]

Reply(body, weather, elev, status, fetched, env, columns, risk) ==
    [kind |-> "request", body |-> body, weather |-> weather, elev |-> elev,
     status |-> status, fetched |-> fetched, env |-> env, columns |-> columns,
     flood_risk |-> risk]

\* POST /predict-by-location; the fitted model rejects a frame whose columns are
\* not the ones it was fitted on, and an uncaught exception is answered with 500
predict_by_location(body, weather, elev, label) ==
    IF ~model_loaded THEN Reply(body, weather, elev, 500, FALSE, << >>, << >>, "")
    ELSE IF body = NoBody THEN Reply(body, weather, elev, 500, FALSE, << >>, << >>, "")
    ELSE IF body.latitude = Null \/ body.longitude = Null
    THEN Reply(body, weather, elev, 400, FALSE, << >>, << >>, "")
    ELSE LET env == fetch_environmental_data(weather, elev)
         IN  IF env[1] = Null                       \* 1.0 + (rainfall / 50.0) raises
             THEN Reply(body, weather, elev, 500, TRUE, env, << >>, "")
             ELSE IF ServedColumns # feature_columns
             THEN Reply(body, weather, elev, 500, TRUE, env, ServedColumns, "")
             ELSE Reply(body, weather, elev, 200, TRUE, env, ServedColumns, label)

InitServe ==
    /\ ExtraIdle
    /\ CacheIdle
    /\ BatchIdle
    /\ RasterIdle
    /\ model_loaded \in BOOLEAN
    /\ feature_columns \in {BASE_FEATURES, ENHANCED_FEATURES}
    /\ last = NoCall

PredictByLocation ==
    /\ \E body \in Bodies, weather \in WeatherAnswers, elev \in ElevAnswers, label \in RiskLabels :
           last' = predict_by_location(body, weather, elev, label)
    /\ UNCHANGED <<cacheVars, batchVars, serveVars, rasters, extraVars>>

\* GET /health
Health ==
    /\ last' = [kind |-> "health", status |-> 200]
    /\ UNCHANGED <<cacheVars, batchVars, serveVars, rasters, extraVars>>

NextServe == PredictByLocation \/ Health

SpecServe == InitServe /\ [][NextServe]_vars

\* ------------------------------------- scripts/add_non_flooded_samples.py
\* int(): truncation toward zero, on a position given in half pixels
IntTrunc(x2) == IF x2 >= 0 THEN x2 \div 2 ELSE -((-x2) \div 2)

\* point_to_pixel: the point's fractional (col, row) under ~transform is
\* (x2 / 2, y2 / 2); returns (int(row), int(col))
point_to_pixel(x2, y2) == <<IntTrunc(y2), IntTrunc(x2)>>

\* raster[row, col] > 0: a "dry" raster has no flood pixel, an "origin" raster
\* exactly the pixel (0, 0)
PixelFlooded(raster, row, col) == raster.content = "origin" /\ row = 0 /\ col = 0

Unknown == "None"

\* is_flooded: the rasters in dict order, all read through the same transform
RECURSIVE IsFloodedFrom(_, _, _, _)
IsFloodedFrom(k, x2, y2, rs) ==
    IF k > Len(YearOrder) THEN "False"
    ELSE LET raster == rs[YearOrder[k]]
             px == point_to_pixel(x2, y2)
         IN  IF 0 <= px[1] /\ px[1] < raster.h /\ 0 <= px[2] /\ px[2] < raster.w
             THEN IF PixelFlooded(raster, px[1], px[2]) THEN "True"
                  ELSE IsFloodedFrom(k + 1, x2, y2, rs)
             ELSE Unknown

is_flooded(x2, y2, rs) == IsFloodedFrom(1, x2, y2, rs)

\* the point lies outside the grid of a raster
OutsideRaster(x2, y2, raster) ==
    x2 < 0 \/ y2 < 0 \/ x2 >= 2 * raster.w \/ y2 >= 2 * raster.h

Rasters == [h : 1..MaxDim, w : 1..MaxDim, content : {"dry", "origin"}]
\* positions from one pixel before the grid to half a pixel past the largest grid
HalfPixels == (-2)..(2 * MaxDim + 1)

InitRaster ==
    /\ ExtraIdle
    /\ CacheIdle
    /\ BatchIdle
    /\ ServeIdle
    /\ rasters \in [Years -> Rasters]
    /\ last = NoCall

\* is_flooded applied once to a point
IsFloodedCall ==
    /\ last = NoCall
    /\ \E x2 \in HalfPixels, y2 \in HalfPixels :
           last' = [kind |-> "is_flooded", x2 |-> x2, y2 |-> y2,
                    status |-> is_flooded(x2, y2, rasters)]
    /\ UNCHANGED <<cacheVars, batchVars, serveVars, rasters, extraVars>>

NextRaster == IsFloodedCall

SpecRaster == InitRaster /\ [][NextRaster]_vars

\* ------------------------ slope: bhuvan_api.get_slope and compute_slopes
\* Slopes are hundredths of a degree (the functions round to 2 decimals);
\* coordinates are metres north and east of a reference, the query point at (1, 1).
DefaultSlope == 500
DefaultRadius == 500
Radii == {0, 1, 100, DefaultRadius}
\* dist_m = offset * 111000 with offset = 0.005
ScriptDistM == 555

SamplePoints == {"center", "north", "south", "east", "west"}
SlopeElevValues == {20, 150}
\* what the provider may answer for one sample point: an elevation or a timeout
SlopeAnswers ==
    {Response(StatusOK, TRUE, <<v>>) : v \in SlopeElevValues}
        \cup {Response(StatusNone, FALSE, << >>)}

Abs(x) == IF x < 0 THEN 0 - x ELSE x
Max(a, b) == IF a > b THEN a ELSE b

\* (self, lat, lon) of sample point p: lat +- offset, lon +- offset, offset = r / 111000
PointArgs(self, p, r) ==
    <<self,
      1 + (IF p = "north" THEN r ELSE IF p = "south" THEN 0 - r ELSE 0),
      1 + (IF p = "east" THEN r ELSE IF p = "west" THEN 0 - r ELSE 0)>>

\* round(math.degrees(math.atan(rise / run)), 2) * 100, tabulated for the
\* elevation differences of ElevValues and 50, and the runs 2 * r and 2 * dist_m
SlopeTable ==
    [run \in {2, 200, 1000, 1110} |->
        CASE run = 2 ->
                 [rise \in {0, 20, 30, 50, 100, 130, 150} |->
                     CASE rise = 0 -> 0 [] rise = 20 -> 8429 [] rise = 30 -> 8619
                       [] rise = 50 -> 8771 [] rise = 100 -> 8885 [] rise = 130 -> 8912
                       [] rise = 150 -> 8924]
          [] run = 200 ->
                 [rise \in {0, 20, 30, 50, 100, 130, 150} |->
                     CASE rise = 0 -> 0 [] rise = 20 -> 571 [] rise = 30 -> 853
                       [] rise = 50 -> 1404 [] rise = 100 -> 2657 [] rise = 130 -> 3302
                       [] rise = 150 -> 3687]
          [] run = 1000 ->
                 [rise \in {0, 20, 30, 50, 100, 130, 150} |->
                     CASE rise = 0 -> 0 [] rise = 20 -> 115 [] rise = 30 -> 172
                       [] rise = 50 -> 286 [] rise = 100 -> 571 [] rise = 130 -> 741
                       [] rise = 150 -> 853]
          [] run = 1110 ->
                 [rise \in {0, 20, 30, 50, 100, 130, 150} |->
                     CASE rise = 0 -> 0 [] rise = 20 -> 103 [] rise = 30 -> 155
                       [] rise = 50 -> 258 [] rise = 100 -> 515 [] rise = 130 -> 668
                       [] rise = 150 -> 770]]

\* mutation of SlopeOfSamples: the south sample is replaced by the centre sample
SlopeOfSamplesFromCentre(c, n, s, e, w, run) ==
    SlopeTable[run][Max(Abs(n - c), Abs(e - w))]

\* north_south_slope = abs(n - s) / (2 * radius); east_west_slope likewise;
\* round(math.degrees(math.atan(max(ns, ew))), 2).  c is fetched and not used.
SlopeOfSamples(c, n, s, e, w, run) ==
    SlopeTable[run][Max(Abs(n - s), Abs(e - w))]

\* the body of BhuvanAPI.get_slope: five cached get_elevation calls, then the
\* slope; radius 0 divides by zero, which the except turns into 5.0
GetSlopeBody(store, t, ter, r) ==
    LET c == get_elevation_at(store, t, ter["center"], PointArgs("bhuvan_api", "center", r))
        n == get_elevation_at(c.store, t, ter["north"], PointArgs("bhuvan_api", "north", r))
        s == get_elevation_at(n.store, t, ter["south"], PointArgs("bhuvan_api", "south", r))
        e == get_elevation_at(s.store, t, ter["east"], PointArgs("bhuvan_api", "east", r))
        w == get_elevation_at(e.store, t, ter["west"], PointArgs("bhuvan_api", "west", r))
    IN  [store |-> w.store,
         data |-> IF r = 0 THEN DefaultSlope
                  ELSE SlopeOfSamples(c.data, n.data, s.data, e.data, w.data, 2 * r),
         raised |-> FALSE]

\* how the caller writes the radius: get_slope(lat, lon), get_slope(lat, lon, r)
\* or get_slope(lat, lon, radius=r)
CallForms == {"default", "positional", "keyword"}

\* f"{func.__name__}:{args}:{kwargs}" for a get_slope call written in `form`
SlopeKey(form, r) ==
    CacheKey("get_slope",
             IF form = "positional" THEN <<"bhuvan_api", 1, 1, r>> ELSE <<"bhuvan_api", 1, 1>>,
             IF form = "keyword" THEN <<(<<"radius", r>>)>> ELSE << >>)

get_slope_called(store, t, ter, r, form) ==
    wrapper(store, SlopeKey(form, r), ElevationExpiryHours, t, GetSlopeBody(store, t, ter, r))

get_slope(store, t, ter, r) == get_slope_called(store, t, ter, r, "positional")

\* fetch_elevations_batch for a single coordinate whose request is answered resp
\* (a 414 is followed by a per-point request that is answered the same way)
BatchSample(resp) ==
    IF resp.status = StatusOK
    THEN WriteBatch(<<DefaultElevation>>, 0, IF resp.present THEN resp.list ELSE << >>)[1]
    ELSE IF resp.status = StatusURITooLong THEN SingleRetryValue(DefaultElevation, resp)
    ELSE DefaultElevation

\* compute_slopes for one coordinate: four batch fetches, no centre sample
compute_slopes(ter) ==
    SlopeOfSamples(DefaultElevation, BatchSample(ter["north"]), BatchSample(ter["south"]),
                   BatchSample(ter["east"]), BatchSample(ter["west"]), 2 * ScriptDistM)

InitSlope ==
    /\ BatchIdle
    /\ ServeIdle
    /\ RasterIdle
    /\ now = 0
    /\ ticks = 0
    /\ cache_store = << >>
    /\ expiry_hours = ElevationExpiryHours
    /\ last = NoCall
    /\ provider = Response(StatusNone, FALSE, << >>)
    /\ zones_data = None
    /\ flood_data = None
    /\ elev_failed = FALSE
    /\ terrain \in [SamplePoints -> SlopeAnswers]
    /\ radius \in Radii
    /\ waterways = None
    /\ net = None
    /\ LateIdle

\* bhuvan_api.get_slope(lat, lon, radius), and the same call made again at once
CallGetSlope ==
    LET res == get_slope(cache_store, now, terrain, radius)
        again == get_slope(res.store, now, terrain, radius)
    IN  /\ cache_store' = res.store
        /\ last' = [kind |-> "call", fn |-> "get_slope", t |-> now, data |-> res.data,
                    invoked |-> res.invoked, again |-> again.data]
        /\ UNCHANGED <<now, ticks, expiry_hours, provider, zones_data, flood_data,
                       elev_failed, batchVars, serveVars, rasters, extraVars>>

\* compute_slopes([lat], [lon]), run twice on the same provider answers
CallComputeSlopes ==
    /\ last' = [kind |-> "call", fn |-> "compute_slopes", t |-> now,
                data |-> compute_slopes(terrain), invoked |-> TRUE,
                again |-> compute_slopes(terrain)]
    /\ UNCHANGED <<cacheVars, batchVars, serveVars, rasters, extraVars>>

NextSlope == Tick \/ CallGetSlope \/ CallComputeSlopes

SpecSlope == InitSlope /\ [][NextSlope]_vars

\* the elevation get_elevation yields for sample point p of the current terrain
SampleElevation(p) == GetElevationBody(terrain[p])

\* ------------------- the zone step function, serving and training side
\* the elevations the two zone functions are compared on: -MaxBelow .. MaxElev
MaxBelow == 10
MaxElev == 160
MinElev == 0 - MaxBelow

\* compute_ksdma_zones: the inner function zone(e)
zone(e) ==
    IF e < 10 THEN 5
    ELSE IF e < 30 THEN 4
    ELSE IF e < 60 THEN 3
    ELSE IF e < 100 THEN 2
    ELSE 1

compute_ksdma_zones(elevs) == [i \in 1..Len(elevs) |-> zone(elevs[i])]

InitZone ==
    /\ ExtraIdle
    /\ CacheIdle
    /\ BatchIdle
    /\ ServeIdle
    /\ RasterIdle
    /\ last = NoCall

\* the same elevation e goes through KSDMAZones.get_vulnerability_zone (no zone
\* map loaded, the provider answering e) and through compute_ksdma_zones([e])
ClassifyElevation ==
    /\ \E e \in MinElev..MaxElev :
           last' = [kind |-> "zone", e |-> e,
                    serving |-> get_vulnerability_zone(<< >>, 0,
                                    Response(StatusOK, TRUE, <<e>>), None).data,
                    training |-> compute_ksdma_zones(<<e>>)[1]]
    /\ UNCHANGED <<cacheVars, batchVars, serveVars, rasters, extraVars>>

NextZone == ClassifyElevation

SpecZone == InitZone /\ [][NextZone]_vars

\* ------------------------------------ ksdma_zones.py with a loaded zone map
ZoneMaps == {[features |-> f] : f \in SeqsUpTo(ZoneFeatures, MaxMapFeatures)}

InitZoneMap ==
    /\ ExtraIdle
    /\ BatchIdle
    /\ ServeIdle
    /\ RasterIdle
    /\ now = 0
    /\ ticks = 0
    /\ cache_store = << >>
    /\ expiry_hours = ElevationExpiryHours
    /\ last = NoCall
    /\ provider \in SingleResponses
    /\ zones_data \in ZoneMaps \cup {None}
    /\ flood_data = None
    /\ elev_failed = FALSE

\* ksdma_zones.is_in_flood_prone_area(lat, lon): zone >= 4
CallIsInFloodProneArea ==
    LET res == get_vulnerability_zone(cache_store, now, provider, zones_data)
    IN  Observe("is_in_flood_prone_area",
                [store |-> res.store, data |-> res.data >= 4])

NextZoneMap == CallGetVulnerabilityZone \/ CallIsInFloodProneArea

SpecZoneMap == InitZoneMap /\ [][NextZoneMap]_vars

\* the places in the loaded map of the features whose polygon contains the point
Containing == {i \in 1..Len(zones_data.features) : zones_data.features[i].geom = "in"}

\* ----------------------- loaded maps with features that have no geometry
\* "bad": the feature has no 'geometry' (or a null one), feature['geometry'] /
\* shape() raises.  An empty geometry contains no point and is an "out".
MalformedGeoms == Geoms \cup {"bad"}
MalformedZoneMaps ==
    {[features |-> f] :
        f \in SeqsUpTo([geom : MalformedGeoms, vulnerability : {2, 4}], MaxMapFeatures)}
MalformedLayers == {[features |-> f] : f \in SeqsUpTo(MalformedGeoms, MaxMapFeatures)}

InitMalformed ==
    /\ ExtraIdle
    /\ BatchIdle
    /\ ServeIdle
    /\ RasterIdle
    /\ now = 0
    /\ ticks = 0
    /\ cache_store = << >>
    /\ expiry_hours = ElevationExpiryHours
    /\ last = NoCall
    /\ provider = Response(StatusNone, FALSE, << >>)
    /\ zones_data \in MalformedZoneMaps
    /\ flood_data \in MalformedLayers
    /\ elev_failed = FALSE

NextMalformed == CallGetVulnerabilityZone \/ CallGetFloodFrequency

SpecMalformed == InitMalformed /\ [][NextMalformed]_vars

\* ------------- waterways: osm_processor.py and the enrich script's NumPy code
\* A node is its signed distance north of the query point in thousandths of a
\* degree (every node lies on the query point's meridian); a way is a list of
\* nodes.  Distances are metres, densities are thousandths.
NodeOffsets == {-4, 9, 600, 700}
Ways == [1..2 -> NodeOffsets]
WaterwaySets == SeqsUpTo(Ways, MaxWays)

RoundDiv(a, b) == (2 * a + b) \div (2 * b)
SetMin(S) == CHOOSE x \in S : \A y \in S : x <= y

RECURSIVE Flatten(_)
Flatten(ways) == IF ways = << >> THEN << >> ELSE Head(ways) \o Flatten(Tail(ways))

\* load_waterway_nodes on a file holding `features`: coords.extend over every
\* feature, then np.array(coords)
load_waterway_nodes(features) == Flatten(features)

\* _haversine_km along the meridian: 6371 * radians(dlat), in millimetres
HaversineMM(node) == Abs(node) * 111195

RiverFallbackM == 10000
\* compute_river_distances for one coordinate; nodes[:, 1] raises IndexError
\* when np.array(coords) came from an empty list and has one dimension
compute_river_distances(nodes) ==
    IF Len(nodes) = 0 THEN Raise
    ELSE LET nearby == {i \in 1..Len(nodes) : Abs(nodes[i]) < 500}
         IN  IF nearby = {} THEN RiverFallbackM
             ELSE RoundDiv(SetMin({HaversineMM(nodes[i]) : i \in nearby}), 1000)

\* compute_drainage_density for one coordinate, radius_km = 1.0:
\* prefilter |dlat| < 1.5 / 111 degrees, then cnt of nodes within 1 km
compute_drainage_density(nodes) ==
    IF Len(nodes) = 0 THEN Raise
    ELSE LET nearby == {i \in 1..Len(nodes) : Abs(nodes[i]) * 111 < 1500}
             cnt == Cardinality({i \in nearby : HaversineMM(nodes[i]) <= 1000000})
         IN  IF nearby = {} THEN 0
             ELSE Min(cnt * 10, 1000)                 \* round(min(cnt / 100.0, 1.0), 3)

\* point.distance(line) in thousandths of a degree
DistanceToLine(way) ==
    LET lo == SetMin({way[i] : i \in 1..Len(way)})
        hi == 0 - SetMin({0 - way[i] : i \in 1..Len(way)})
    IN  IF lo <= 0 /\ 0 <= hi THEN 0 ELSE Min(Abs(lo), Abs(hi))

RECURSIVE LineLength(_)
\* line.length in thousandths of a degree
LineLength(way) ==
    IF Len(way) < 2 THEN 0 ELSE Abs(way[2] - way[1]) + LineLength(Tail(way))

\* the provider's side of way[...](around:R,lat,lon): the ways passing within R metres
Around(ways, R) == SelectSeq(ways, LAMBDA w : DistanceToLine(w) * 111195 <= R * 1000)

RECURSIVE TotalLengthM(_)
\* total_length += line.length * 111, in metres
TotalLengthM(elements) ==
    IF elements = << >> THEN 0
    ELSE LineLength(Head(elements)) * 111 + TotalLengthM(Tail(elements))

OsmStatuses == {StatusOK, StatusServerError, StatusNone}
RiverErrorM == 5000
DensityError == 500

\* the body of OSMProcessor.get_nearest_river_distance
NearestRiverBody(status, elements) ==
    IF status = StatusNone THEN RiverErrorM                   \* except: return 5.0
    ELSE IF status # StatusOK THEN RiverErrorM                \* return 5.0
    ELSE IF elements = << >> THEN RiverFallbackM              \* return 10.0
    ELSE 10 * RoundDiv(SetMin({DistanceToLine(elements[i]) * 111 :
                                   i \in 1..Len(elements)}), 10)

get_nearest_river_distance(store, t, status, ways) ==
    wrapper(store, CacheKey("get_nearest_river_distance", CoordArgs("osm_processor"), << >>),
            WeekExpiryHours, t, Leaf(store, NearestRiverBody(status, Around(ways, 10000))))

\* the body of OSMProcessor.get_drainage_density
DrainageDensityBody(status, elements) ==
    IF status = StatusNone THEN DensityError                  \* except: return 0.5
    ELSE IF status # StatusOK THEN DensityError               \* return 0.5
    ELSE 10 * RoundDiv(Min(TotalLengthM(elements), 10000), 100)

get_drainage_density(store, t, status, ways) ==
    wrapper(store, CacheKey("get_drainage_density", CoordArgs("osm_processor"), << >>),
            WeekExpiryHours, t, Leaf(store, DrainageDensityBody(status, Around(ways, 1000))))

InitWaterways ==
    /\ CacheIdle
    /\ BatchIdle
    /\ ServeIdle
    /\ RasterIdle
    /\ last = NoCall
    /\ terrain = None
    /\ radius = 0
    /\ waterways \in WaterwaySets
    /\ net = None
    /\ LateIdle

\* one call of a training-side function on the nodes of the local file
Enrich(fn, data) ==
    /\ last' = [kind |-> "call", fn |-> fn, t |-> now, data |-> data,
                status |-> StatusOK, invoked |-> TRUE, elements |-> waterways]
    /\ UNCHANGED <<cacheVars, batchVars, serveVars, rasters, extraVars>>

ComputeRiverDistances ==
    Enrich("compute_river_distances",
           compute_river_distances(load_waterway_nodes(waterways)))

ComputeDrainageDensity ==
    Enrich("compute_drainage_density",
           compute_drainage_density(load_waterway_nodes(waterways)))

\* one call of a serving-side function; the provider answers `status`
Serve(fn, status, R, res) ==
    /\ cache_store' = res.store
    /\ last' = [kind |-> "call", fn |-> fn, t |-> now, data |-> res.data,
                status |-> status, invoked |-> res.invoked,
                elements |-> Around(waterways, R)]
    /\ UNCHANGED <<now, ticks, expiry_hours, provider, zones_data, flood_data,
                   elev_failed, batchVars, serveVars, rasters, extraVars>>

GetNearestRiverDistance ==
    \E status \in OsmStatuses :
        Serve("get_nearest_river_distance", status, 10000,
              get_nearest_river_distance(cache_store, now, status, waterways))

GetDrainageDensity ==
    \E status \in OsmStatuses :
        Serve("get_drainage_density", status, 1000,
              get_drainage_density(cache_store, now, status, waterways))

NextWaterways ==
    \/ ComputeRiverDistances
    \/ ComputeDrainageDensity
    \/ GetNearestRiverDistance
    \/ GetDrainageDensity

SpecWaterways == InitWaterways /\ [][NextWaterways]_vars

\* the nodes of the current waterway file
Nodes == load_waterway_nodes(waterways)

\* -------------------------- external network calls and their timeouts
\* requests' default, timeout=None: the call waits for the provider for ever
NoTimeout == 0
BhuvanTimeout == 10
BatchTimeout == 30
SingleTimeout == 10

ValidBody == [kind |-> "object", latitude |-> 9, longitude |-> 76]

\* the operation `op` is blocked in the external call `call`, made with `timeout`
Waiting(op, call, timeout, weather) ==
    [op |-> op, call |-> call, timeout |-> timeout, weather |-> weather]

Returned(op, data, timed_out) ==
    [kind |-> "returned", op |-> op, data |-> data, timed_out |-> timed_out]

InitNet ==
    /\ CacheIdle
    /\ BatchIdle
    /\ RasterIdle
    /\ model_loaded = TRUE
    /\ feature_columns \in {BASE_FEATURES, ENHANCED_FEATURES}
    /\ last = NoCall
    /\ terrain = None
    /\ radius = 0
    /\ waterways = None
    /\ net = None
    /\ LateIdle

\* POST /predict-by-location with both fields: fetch_environmental_data sends
\* requests.get(weather_url, params=weather_params)
StartPredict ==
    /\ net = None
    /\ net' = Waiting("predict", "weather", NoTimeout, WeatherFailed)
    /\ last' = NoCall
    /\ UNCHANGED <<cacheVars, batchVars, serveVars, rasters, terrain, radius, waterways, lateVars>>

\* bhuvan_api.get_elevation on a cache miss: requests.get(url, params, timeout=10)
StartGetElevation ==
    /\ net = None
    /\ ~(ElevationKey \in DOMAIN cache_store
           /\ Fresh(cache_store[ElevationKey], ElevationExpiryHours, now))
    /\ net' = Waiting("get_elevation", "elevation", BhuvanTimeout, WeatherFailed)
    /\ last' = NoCall
    /\ UNCHANGED <<cacheVars, batchVars, serveVars, rasters, terrain, radius, waterways, lateVars>>

\* fetch_elevations_batch([lat], [lon]): requests.get(url, params, timeout=30)
StartBatch ==
    /\ net = None
    /\ net' = Waiting("fetch_elevations_batch", "batch", BatchTimeout, WeatherFailed)
    /\ last' = NoCall
    /\ UNCHANGED <<cacheVars, batchVars, serveVars, rasters, terrain, radius, waterways, lateVars>>

\* the provider answers the call in flight (a response or a connection error);
\* nothing obliges it to
ProviderAnswers ==
    /\ net # None
    /\ \/ /\ net.op = "predict" /\ net.call = "weather"
          /\ \E w \in WeatherAnswers, label \in RiskLabels :
                 IF w.raised \/ w.soil = Null        \* the except of line 56 is entered
                 THEN /\ net' = None
                      /\ last' = predict_by_location(ValidBody, w, Raise, label)
                 ELSE /\ net' = Waiting("predict", "elevation", NoTimeout, w)
                      /\ last' = NoCall
          /\ UNCHANGED cache_store
       \/ /\ net.op = "predict" /\ net.call = "elevation"
          /\ \E e \in ElevAnswers, label \in RiskLabels :
                 last' = predict_by_location(ValidBody, net.weather, e, label)
          /\ net' = None
          /\ UNCHANGED cache_store
       \/ /\ net.op = "get_elevation"
          /\ \E resp \in SingleResponses :
                 LET res == get_elevation(cache_store, now, resp)
                 IN  /\ cache_store' = res.store
                     /\ last' = Returned("get_elevation", res.data, FALSE)
          /\ net' = None
       \/ /\ net.op = "fetch_elevations_batch" /\ net.call = "batch"
          /\ \E resp \in BatchResponses(1) :
                 IF resp.status = StatusURITooLong
                 THEN /\ net' = Waiting("fetch_elevations_batch", "single", SingleTimeout,
                                        WeatherFailed)
                      /\ last' = NoCall
                 ELSE /\ net' = None
                      /\ last' = Returned("fetch_elevations_batch",
                                          <<BatchSample(resp)>>, FALSE)
          /\ UNCHANGED cache_store
       \/ /\ net.op = "fetch_elevations_batch" /\ net.call = "single"
          /\ \E r2 \in SingleResponses :
                 last' = Returned("fetch_elevations_batch",
                                  <<SingleRetryValue(DefaultElevation, r2)>>, FALSE)
          /\ net' = None
          /\ UNCHANGED cache_store
    /\ UNCHANGED <<now, ticks, expiry_hours, provider, zones_data, flood_data, elev_failed,
                   batchVars, serveVars, rasters, terrain, radius, waterways, lateVars>>

\* the timeout the call was made with runs out: requests raises Timeout, which
\* the caller's except turns into its fallback
TimeoutFires ==
    /\ net # None
    /\ net.timeout # NoTimeout
    /\ \/ /\ net.op = "get_elevation"
          /\ LET res == get_elevation(cache_store, now, Response(StatusNone, FALSE, << >>))
             IN  /\ cache_store' = res.store
                 /\ last' = Returned("get_elevation", res.data, TRUE)
       \/ /\ net.op = "fetch_elevations_batch"
          /\ last' = Returned("fetch_elevations_batch", <<DefaultElevation>>, TRUE)
          /\ UNCHANGED cache_store
    /\ net' = None
    /\ UNCHANGED <<now, ticks, expiry_hours, provider, zones_data, flood_data, elev_failed,
                   batchVars, serveVars, rasters, terrain, radius, waterways, lateVars>>

NextNet ==
    \/ StartPredict
    \/ StartGetElevation
    \/ StartBatch
    \/ ProviderAnswers
    \/ TimeoutFires

SpecNet == InitNet /\ [][NextNet]_vars

\* ----------------------- cache.py: two threads inside the same wrapper
\* Two workers call expensive_api_call(1, 1); a dict read or write is one
\* step, the call of func lies between the read and the write.
Workers == {1, 2}
WorkerKey == CacheKey("expensive_api_call", <<1, 1>>, << >>)
AtRest == [pc |-> "idle", result |-> Null]

InitWorkers ==
    /\ BatchIdle
    /\ ServeIdle
    /\ RasterIdle
    /\ now = 0
    /\ ticks = 0
    /\ cache_store = << >>
    /\ expiry_hours \in ExpiryChoices
    /\ last = NoCall
    /\ provider = Response(StatusNone, FALSE, << >>)
    /\ zones_data = None
    /\ flood_data = None
    /\ elev_failed = FALSE
    /\ terrain = None
    /\ radius = 0
    /\ waterways = None
    /\ net = None
    /\ workers = [w \in Workers |-> AtRest]
    /\ invocations = 0
    /\ files = None
    /\ constructed = FALSE
    /\ enrich = None
    /\ sampling = None

\* lines 25-36: the worker builds the key and looks it up; on a valid entry it
\* returns the stored data, otherwise it goes on to call func
WorkerChecks(w) ==
    /\ workers[w].pc = "idle"
    /\ IF WorkerKey \in DOMAIN cache_store
            /\ Fresh(cache_store[WorkerKey], expiry_hours, now)
       THEN /\ workers' = [workers EXCEPT ![w] = [pc |-> "returned",
                                                  result |-> cache_store[WorkerKey].data]]
            /\ UNCHANGED invocations
       ELSE /\ workers' = [workers EXCEPT ![w] = [pc |-> "computing", result |-> Null]]
            /\ invocations' = invocations + 1
    /\ last' = NoCall
    /\ UNCHANGED <<cacheVars, batchVars, serveVars, rasters, terrain, radius, waterways, net,
                   files, constructed, enrich, sampling>>

\* lines 36-40: func returns (or raises), the worker stores and returns the result
WorkerStores(w) ==
    /\ workers[w].pc = "computing"
    /\ \E outcome \in (1..MaxVal) \cup {Raise} :
           /\ workers' = [workers EXCEPT ![w] = [pc |-> "returned", result |-> outcome]]
           /\ cache_store' = IF outcome = Raise THEN cache_store
                             ELSE Put(cache_store, WorkerKey, outcome, now)
    /\ last' = NoCall
    /\ UNCHANGED <<now, ticks, expiry_hours, provider, zones_data, flood_data, elev_failed,
                   batchVars, serveVars, rasters, terrain, radius, waterways, net,
                   invocations, files, constructed, enrich, sampling>>

NextWorkers == Tick \/ (\E w \in Workers : WorkerChecks(w) \/ WorkerStores(w))

SpecWorkers == InitWorkers /\ [][NextWorkers]_vars

\* -------------------- cache keys of one logical call written in several ways
InitKeys ==
    /\ BatchIdle
    /\ ServeIdle
    /\ RasterIdle
    /\ now = 0
    /\ ticks = 0
    /\ cache_store = << >>
    /\ expiry_hours = ElevationExpiryHours
    /\ last = NoCall
    /\ provider = Response(StatusNone, FALSE, << >>)
    /\ zones_data = None
    /\ flood_data = None
    /\ elev_failed = FALSE
    /\ terrain \in {[p \in SamplePoints |-> a] : a \in SlopeAnswers}
    /\ radius = DefaultRadius
    /\ waterways = None
    /\ net = None
    /\ LateIdle

\* get_slope for the default radius of 500 m, the radius written in any form
CallGetSlopeAs ==
    \E form \in CallForms :
        LET res == get_slope_called(cache_store, now, terrain, radius, form)
        IN  /\ cache_store' = res.store
            /\ last' = [kind |-> "call", fn |-> "get_slope", t |-> now, data |-> res.data,
                        invoked |-> res.invoked, form |-> form, pre_store |-> cache_store]
            /\ UNCHANGED <<now, ticks, expiry_hours, provider, zones_data, flood_data,
                           elev_failed, batchVars, serveVars, rasters, extraVars>>

NextKeys == Tick \/ CallGetSlopeAs

SpecKeys == InitKeys /\ [][NextKeys]_vars

\* ------------------------------------ cache.py: clear_cache, get_cache_stats
\* two of the functions decorated with @cache_result(expiry_hours=720)
CachedNames == {"get_elevation", "get_flood_history"}

\* mutation of clear_cache: without `global`, the assignment binds a local name
clear_cacheLocal(store) == store

\* global cache_store; cache_store = {}
clear_cache(store) == << >>

\* list(cache_store.keys()): every key once
KeyList(store) ==
    CHOOSE s \in [1..Cardinality(DOMAIN store) -> DOMAIN store] :
        {s[i] : i \in DOMAIN s} = DOMAIN store

get_cache_stats(store) ==
    [total_entries |-> Cardinality(DOMAIN store), cache_keys |-> KeyList(store)]

InitClear ==
    /\ ExtraIdle
    /\ BatchIdle
    /\ ServeIdle
    /\ RasterIdle
    /\ now = 0
    /\ ticks = 0
    /\ cache_store = << >>
    /\ expiry_hours = ElevationExpiryHours
    /\ last = NoCall
    /\ provider = Response(StatusNone, FALSE, << >>)
    /\ zones_data = None
    /\ flood_data = None
    /\ elev_failed = FALSE

\* a call of one of the cached functions at the point (1, 1)
CallNamed ==
    \E fname \in CachedNames, outcome \in (1..MaxVal) \cup {Raise} :
        LET key == CacheKey(fname, <<1, 1>>, << >>)
            res == wrapper(cache_store, key, expiry_hours, now, Leaf(cache_store, outcome))
        IN  /\ cache_store' = res.store
            /\ last' = [kind |-> "call", key |-> key, t |-> now,
                        pre |-> EntryOf(cache_store, key), outcome |-> outcome,
                        data |-> res.data, raised |-> res.raised, invoked |-> res.invoked]
            /\ UNCHANGED <<now, ticks, expiry_hours, provider, zones_data, flood_data, elev_failed,
                           batchVars, serveVars, rasters, extraVars>>

ClearCache ==
    /\ cache_store' = clear_cache(cache_store)
    /\ last' = [kind |-> "clear", before |-> Cardinality(DOMAIN cache_store)]
    /\ UNCHANGED <<now, ticks, expiry_hours, provider, zones_data, flood_data, elev_failed,
                   batchVars, serveVars, rasters, extraVars>>

GetCacheStats ==
    /\ last' = [kind |-> "stats", stats |-> get_cache_stats(cache_store)]
    /\ UNCHANGED <<cacheVars, batchVars, serveVars, rasters, extraVars>>

NextClear == Tick \/ CallNamed \/ ClearCache \/ GetCacheStats

SpecClear == InitClear /\ [][NextClear]_vars

\* ------------------------- KSDMAZones.__init__ and SentinelProcessor.__init__
\* the two module-level instances and the file each one loads
Instances == {"ksdma_zones", "sentinel_processor"}

\* what is at a data path: nothing, a file json.load raises on, or parsed JSON
FileAbsent == [state |-> "absent"]
FileUnparsable == [state |-> "unparsable"]
FilePresent(data) == [state |-> "present", data |-> data]
FileStates(c) ==
    {FileAbsent, FileUnparsable}
        \cup IF c = "ksdma_zones"
             THEN {FilePresent([features |-> <<[geom |-> "in", vulnerability |-> v]>>]) : v \in {1, 5}}
             ELSE {FilePresent([features |-> <<"in">>])}

\* mutation of load_zones: json.load's exception leaves the constructor
load_zonesUncaught(file) ==
    IF file.state = "present" THEN [data |-> file.data, raised |-> FALSE]
    ELSE [data |-> None, raised |-> file.state = "unparsable"]

\* _load_zones: try: exists -> json.load, else None; except Exception: None
load_zones(file) ==
    IF file.state = "present" THEN [data |-> file.data, raised |-> FALSE]
    ELSE [data |-> None, raised |-> FALSE]

\* _load_flood_footprints: the same try/except around the footprints file
load_flood_footprints(file) ==
    IF file.state = "present" THEN [data |-> file.data, raised |-> FALSE]
    ELSE [data |-> None, raised |-> FALSE]

InitLoad ==
    /\ BatchIdle
    /\ ServeIdle
    /\ RasterIdle
    /\ now = 0
    /\ ticks = 0
    /\ cache_store = << >>
    /\ expiry_hours = ElevationExpiryHours
    /\ last = NoCall
    /\ provider \in {Response(StatusOK, TRUE, <<0>>), Response(StatusServerError, FALSE, << >>)}
    /\ zones_data = None
    /\ flood_data = None
    /\ elev_failed = FALSE
    /\ terrain = None
    /\ radius = 0
    /\ waterways = None
    /\ net = None
    /\ workers = None
    /\ invocations = 0
    /\ files \in [Instances -> {FileAbsent, FileUnparsable}]
    /\ constructed = [c \in Instances |-> None]
    /\ enrich = None
    /\ sampling = None

\* ksdma_zones = KSDMAZones() / sentinel_processor = SentinelProcessor()
Construct(c) ==
    /\ constructed[c] = None
    /\ LET res == IF c = "ksdma_zones" THEN load_zones(files[c])
                  ELSE load_flood_footprints(files[c])
       IN  /\ zones_data' = IF c = "ksdma_zones" /\ ~res.raised THEN res.data ELSE zones_data
           /\ flood_data' = IF c = "sentinel_processor" /\ ~res.raised THEN res.data ELSE flood_data
           /\ last' = [kind |-> "construct", who |-> c, raised |-> res.raised]
           /\ constructed' = [constructed EXCEPT ![c] = files[c]]
    /\ UNCHANGED <<now, ticks, cache_store, expiry_hours, provider, elev_failed,
                   batchVars, serveVars, rasters, terrain, radius, waterways, net,
                   workers, invocations, files, enrich, sampling>>

\* the file at a data path is written, damaged or removed while the service runs
FileChanges ==
    /\ \E c \in Instances : \E f \in FileStates(c) \ {files[c]} :
           files' = [files EXCEPT ![c] = f]
    /\ last' = NoCall
    /\ UNCHANGED <<cacheVars, batchVars, serveVars, rasters, terrain, radius, waterways, net,
                   workers, invocations, constructed, enrich, sampling>>

\* a query of one of the two instances, with what it was computed from
Query(fn, res) ==
    /\ cache_store' = res.store
    /\ last' = [kind |-> "call", fn |-> fn, t |-> now, data |-> res.data,
                invoked |-> res.invoked, pre_store |-> cache_store, resp |-> provider]
    /\ UNCHANGED <<now, ticks, expiry_hours, provider, zones_data, flood_data, elev_failed,
                   batchVars, serveVars, rasters, extraVars>>

QueryVulnerabilityZone ==
    Query("get_vulnerability_zone",
          get_vulnerability_zone(cache_store, now, provider, zones_data))

QueryFloodFrequency ==
    Query("get_flood_frequency",
          get_flood_frequency(cache_store, now, provider, zones_data, flood_data))

Loaded == \A c \in Instances : constructed[c] # None

NextLoad ==
    \/ Tick
    \/ FileChanges
    \/ \E c \in Instances : Construct(c)
    \/ (Loaded /\ QueryVulnerabilityZone)
    \/ (Loaded /\ QueryFloodFrequency)

SpecLoad == InitLoad /\ [][NextLoad]_vars

\* ------------------------------- enrich_with_indian_sources.py: main()
\* what WATERWAYS_PATH holds: nothing, or a file with these features
WaterwayFiles ==
    {FileAbsent, FilePresent(<< >>), FilePresent(<<(<<-4, 9>>)>>), FilePresent(<<(<<600, 700>>)>>)}

\* load_waterway_nodes(): None when the file does not exist
load_waterway_nodes_from(file) ==
    IF file.state = "absent" THEN None ELSE [nodes |-> load_waterway_nodes(file.data)]

\* the values fetch_elevations_batch and compute_slopes can hand to main
EnrichElevations == ElevValues \cup {DefaultElevation}
EnrichSlopes == {compute_slopes([p \in SamplePoints |-> a]) : a \in SlopeAnswers}

InitEnrich ==
    /\ CacheIdle
    /\ BatchIdle
    /\ ServeIdle
    /\ RasterIdle
    /\ last = NoCall
    /\ terrain = None
    /\ radius = 0
    /\ waterways = None
    /\ net = None
    /\ workers = None
    /\ invocations = 0
    /\ files = None
    /\ constructed = FALSE
    /\ \E n \in 1..MaxCoords, file \in WaterwayFiles :
           enrich = [pc |-> "elevation", rows |-> n, file |-> file, elevations |-> << >>,
                     slopes |-> << >>, ksdma |-> << >>, output |-> None, raised |-> FALSE]
    /\ sampling = None

EnrichStep(next) ==
    /\ enrich' = next
    /\ last' = NoCall
    /\ UNCHANGED <<cacheVars, batchVars, serveVars, rasters, terrain, radius, waterways, net,
                   workers, invocations, files, constructed, sampling>>

\* [1/4] elevations = fetch_elevations_batch(lats, lons)
MainElevation ==
    /\ enrich.pc = "elevation"
    /\ \E elevs \in [1..enrich.rows -> EnrichElevations] :
           EnrichStep([enrich EXCEPT !.pc = "slope", !.elevations = elevs])

\* [2/4] slopes = compute_slopes(lats, lons)
MainSlope ==
    /\ enrich.pc = "slope"
    /\ \E slopes \in [1..enrich.rows -> EnrichSlopes] :
           EnrichStep([enrich EXCEPT !.pc = "ksdma", !.slopes = slopes])

\* [3/4] ksdma = compute_ksdma_zones(elevations)
MainKsdma ==
    /\ enrich.pc = "ksdma"
    /\ EnrichStep([enrich EXCEPT !.pc = "osm", !.ksdma = compute_ksdma_zones(enrich.elevations)])

\* [4/4] nodes = load_waterway_nodes(); if nodes is None: return; else the two
\* computations, the five column assignments and df.to_csv(out)
MainOsm ==
    /\ enrich.pc = "osm"
    /\ LET nodes == load_waterway_nodes_from(enrich.file)
           river_dist == compute_river_distances(nodes.nodes)
           drainage == compute_drainage_density(nodes.nodes)
       IN  EnrichStep(
               IF nodes = None THEN [enrich EXCEPT !.pc = "done"]
               ELSE IF river_dist = Raise \/ drainage = Raise
               THEN [enrich EXCEPT !.pc = "done", !.raised = TRUE]
               ELSE [enrich EXCEPT !.pc = "done",
                        !.output = [i \in 1..enrich.rows |->
                                       [ksdma_zone |-> enrich.ksdma[i],
                                        elevation |-> enrich.elevations[i],
                                        slope |-> enrich.slopes[i],
                                        river_distance |-> river_dist,
                                        drainage_density |-> drainage]]])

NextEnrich == MainElevation \/ MainSlope \/ MainKsdma \/ MainOsm

SpecEnrich == InitEnrich /\ [][NextEnrich]_vars

\* ------------------ SentinelProcessor.get_flood_frequency without footprints
\* elevations on both sides of the thresholds 10 m and 30 m
HeuristicElevations == {0, 9, 10, 29, 30, 150}
HeuristicResponses == {Response(StatusOK, TRUE, <<e>>) : e \in HeuristicElevations}
\* a zone map whose only polygon contains the point, one per zone level
HeuristicZoneMaps == {[features |-> <<[geom |-> "in", vulnerability |-> z]>>] : z \in 1..5}

InitHeuristic ==
    /\ ExtraIdle
    /\ BatchIdle
    /\ ServeIdle
    /\ RasterIdle
    /\ now = 0
    /\ ticks = 0
    /\ cache_store = << >>
    /\ expiry_hours = ElevationExpiryHours
    /\ last = NoCall
    /\ provider \in HeuristicResponses
    /\ zones_data \in HeuristicZoneMaps \cup {None}
    /\ flood_data = None
    /\ elev_failed = FALSE

NextHeuristic == Tick \/ QueryVulnerabilityZone \/ QueryFloodFrequency

SpecHeuristic == InitHeuristic /\ [][NextHeuristic]_vars

\* ------------------------------ risk labels of the training-data scripts
\* the per-year flags of one grouped location, in the order 2018, 2019, 2021
FlagSets == [1..Len(YearOrder) -> {0, 1}]
\* elevations of labelled locations; 5 m is the Kochi fixture's
FixtureElevations == ElevValues \cup {5}

\* flood_history_count: the sum of the per-year flags
flood_history_count(flags) == flags[1] + flags[2] + flags[3]

\* mutation of assign_risk: two floods are still Medium
assign_riskStrict(count) ==
    IF count > 2 THEN "High" ELSE IF count >= 1 THEN "Medium" ELSE "Low"

\* extract_flood_training_data_raster.py: assign_risk(count)
assign_risk(count) ==
    IF count >= 2 THEN "High" ELSE IF count = 1 THEN "Medium" ELSE "Low"

\* extract_flood_training_data.py: assign_risk(row) on row['flood_history_count']
assign_risk_row(count) ==
    IF count >= 2 THEN "High" ELSE IF count = 1 THEN "Medium" ELSE "Low"

\* one grouped location is counted and labelled by both extraction scripts
AssignRisk ==
    /\ \E flags \in FlagSets, e \in FixtureElevations :
           LET count == flood_history_count(flags)
           IN  last' = [kind |-> "label", flags |-> flags, elevation |-> e, count |-> count,
                        zone |-> ZoneOfElevation(e), raster |-> assign_risk(count),
                        vector |-> assign_risk_row(count)]
    /\ UNCHANGED <<cacheVars, batchVars, serveVars, rasters, extraVars>>

NextLabels == AssignRisk \/ CallGetFloodEventsDetail

SpecLabels == InitFootprint /\ [][NextLabels]_vars

\* ------------------ add_non_flooded_samples.py: generate_non_flood_samples
MaxSamples == 2
\* max_attempts = num_samples * 50
AttemptFactor == 50

\* the record appended for a point that is_flooded reports as not flooded
NonFloodRecord ==
    [flooded_2018 |-> 0, flooded_2019 |-> 0, flooded_2021 |-> 0,
     flood_history_count |-> 0, risk |-> "Low"]

InitSampling ==
    /\ CacheIdle
    /\ BatchIdle
    /\ ServeIdle
    /\ RasterIdle
    /\ last = NoCall
    /\ terrain = None
    /\ radius = 0
    /\ waterways = None
    /\ net = None
    /\ workers = None
    /\ invocations = 0
    /\ files = None
    /\ constructed = FALSE
    /\ enrich = None
    /\ \E n \in 0..MaxSamples :
           sampling = [pc |-> "loop", num_samples |-> n, attempts |-> 0,
                       non_flood_points |-> << >>, raised |-> FALSE]

SamplingStep(next) ==
    /\ sampling' = next
    /\ last' = NoCall
    /\ UNCHANGED <<cacheVars, batchVars, serveVars, rasters, terrain, radius, waterways, net,
                   workers, invocations, files, constructed, enrich>>

\* one pass of the while loop: a random point, is_flooded, append, attempts += 1
SampleAttempt ==
    /\ sampling.pc = "loop"
    /\ Len(sampling.non_flood_points) < sampling.num_samples
    /\ sampling.attempts < sampling.num_samples * AttemptFactor
    /\ \E flood_status \in {"True", "False", Unknown} :
           SamplingStep([sampling EXCEPT
               !.non_flood_points = IF flood_status = "False" THEN Append(@, NonFloodRecord) ELSE @,
               !.attempts = @ + 1])

\* the loop has ended: the two prints, then return non_flood_points; the
\* second print divides attempts by len(non_flood_points)
SampleReturn ==
    /\ sampling.pc = "loop"
    /\ ~ (/\ Len(sampling.non_flood_points) < sampling.num_samples
          /\ sampling.attempts < sampling.num_samples * AttemptFactor)
    /\ SamplingStep(IF Len(sampling.non_flood_points) = 0
                    THEN [sampling EXCEPT !.pc = "raised", !.raised = TRUE]   \* ZeroDivisionError
                    ELSE [sampling EXCEPT !.pc = "returned"])

\* main: if not non_flood_samples: return; else combine and save
MainAfterSampling ==
    /\ sampling.pc = "returned"
    /\ SamplingStep([sampling EXCEPT !.pc = IF Len(sampling.non_flood_points) = 0
                                            THEN "main_failed" ELSE "main_saved"])

NextSampling == SampleAttempt \/ SampleReturn \/ MainAfterSampling

SpecSampling == InitSampling /\ [][NextSampling]_vars

\* ------------------------------------------------------------------ claims

\* C1: a call of a cached function while now - stored timestamp < E*3600 returns
\* the stored value, does not invoke the function and leaves the entry; a call
\* with no entry or with now - stored timestamp >= E*3600 invokes the function
\* and, when the function returns, returns its result and stores (result, now).
C1_CacheCorrectness ==
    last.kind = "call" =>
        LET inWindow == /\ last.pre # NoEntry
                        /\ last.t - last.pre.timestamp < last.E * 3600
        IN  /\ inWindow => /\ ~last.invoked
                           /\ last.data = last.pre.data
                           /\ cache_store[last.key] = last.pre
            /\ ~inWindow => /\ last.invoked
                            /\ last.outcome # Raise =>
                                   /\ last.data = last.outcome
                                   /\ cache_store[last.key] =
                                          [data |-> last.outcome, timestamp |-> last.t]

\* a hit in the last valid second of an entry whose function would now answer otherwise
C1_Witness ==
    /\ last.kind = "call"
    /\ last.pre # NoEntry
    /\ last.t - last.pre.timestamp = last.E * 3600 - 1
    /\ last.outcome # Raise
    /\ last.outcome # last.pre.data
    /\ ~last.invoked
    /\ last.data = last.pre.data

\* C2: once the provider answers with an elevation again, get_elevation returns
\* that elevation even if its previous call for the coordinate failed.
C2_NoCachedFailure ==
    (/\ last.kind = "call"
     /\ last.fn = "get_elevation"
     /\ last.pre_failed
     /\ Healthy(provider)) => last.data = provider.list[1]

\* C3: when the wrapped function raises, the wrapper raises and cache_store is
\* left exactly as it was (no entry added, an expired entry kept as it is).
C3_RaiseLeavesStore ==
    [][(last'.kind = "call" /\ last'.raised) =>
           (cache_store' = cache_store /\ last'.data = Raise)]_vars

\* the function raised on a call that found an expired entry, which is still there
C3_Witness ==
    /\ last.kind = "call"
    /\ last.raised
    /\ last.pre # NoEntry
    /\ last.t - last.pre.timestamp >= last.E * 3600
    /\ cache_store[last.key] = last.pre

\* C4: the value the batch fetch leaves at a coordinate's index equals what
\* get_elevation returns for the provider's answer for that coordinate.
C4_BatchEqualsSingle ==
    last.kind = "batch" =>
        \A j \in 1..last.len :
            elevations[last.i + j] = GetElevationBody(AnswerFor(last, j))

\* C5: after a failed batch request every coordinate of the batch has had its own
\* single-point request, and holds the default only if that request failed too.
C5_FailedBatchRetried ==
    (last.kind = "batch" /\ last.resp.status # StatusOK) =>
        \A j \in 1..last.len :
            /\ j \in DOMAIN last.singles
            /\ elevations[last.i + j] = DefaultElevation => ~Healthy(last.singles[j])

\* C6: a request carrying latitude and longitude, with the model loaded, hands the
\* model exactly the columns it was fitted on and is answered 200.
C6_ServedColumnsAreTrained ==
    (/\ last.kind = "request"
     /\ model_loaded
     /\ last.body # NoBody
     /\ last.body.latitude # Null
     /\ last.body.longitude # Null
     /\ last.env[1] # Null) => (last.columns = feature_columns /\ last.status = 200)

\* C7: when the forecast request succeeded and the elevation request raised, the
\* rainfall and soil moisture are the fetched ones and only elevation is the fallback.
C7_OnlyFailedSourceFallsBack ==
    (/\ last.kind = "request"
     /\ last.fetched
     /\ ~last.weather.raised
     /\ last.weather.rainfall # Null
     /\ last.weather.soil # Null
     /\ last.elev = Raise)
        => last.env = <<last.weather.rainfall, last.weather.soil * 100, FallbackElevation>>

\* C8: at every moment get_flood_history returns 1 exactly when
\* get_flood_frequency returns a count greater than 0.
C8_HistoryIffFrequency ==
    LET h == get_flood_history(cache_store, now, provider, zones_data, flood_data)
        f == get_flood_frequency(h.store, now, provider, zones_data, flood_data)
    IN  (h.data = 1) <=> (f.data > 0)

\* C9: total_events equals the number of per-year flags that are set.
C9_CountEqualsFlags ==
    (last.kind = "call" /\ last.fn = "get_flood_events_detail") =>
        last.data.total_events =
            (IF last.data.flooded_2018 THEN 1 ELSE 0)
          + (IF last.data.flooded_2019 THEN 1 ELSE 0)
          + (IF last.data.flooded_2021 THEN 1 ELSE 0)

\* C10: for a point outside every raster's grid, by any amount on any side,
\* is_flooded returns the unknown outcome.
C10_OutsideIsUnknown ==
    (/\ last.kind = "is_flooded"
     /\ \A y \in Years : OutsideRaster(last.x2, last.y2, rasters[y]))
        => last.status = Unknown

\* C11: when the provider fails on any of the five elevation fetches of
\* get_slope, get_slope returns the default 5.0 degrees.
C11_FailedFetchGivesDefaultSlope ==
    (/\ last.kind = "call"
     /\ last.fn = "get_slope"
     /\ \E p \in SamplePoints : terrain[p].status # StatusOK)
        => last.data = DefaultSlope

\* C12: for radius > 0 and a fixed assignment of elevations to the sample
\* points, get_slope and compute_slopes return a value in [0, 90] degrees, the
\* same value when called again, a value that does not change with the centre
\* sample, and 0 when the north, south, east and west samples are equal.
C12_SlopeProperties ==
    (/\ last.kind = "call"
     /\ last.fn \in {"get_slope", "compute_slopes"}
     /\ last.fn = "get_slope" => radius > 0)
        => LET sample(p) == IF last.fn = "get_slope" THEN SampleElevation(p)
                            ELSE BatchSample(terrain[p])
               recomputed(ter) == IF last.fn = "get_slope"
                                  THEN get_slope(<< >>, last.t, ter, radius).data
                                  ELSE compute_slopes(ter)
           IN  /\ last.data \in 0..9000
               /\ last.again = last.data
               /\ \A a \in SlopeAnswers :
                      recomputed([terrain EXCEPT !["center"] = a]) = last.data
               /\ (/\ sample("north") = sample("south")
                   /\ sample("south") = sample("east")
                   /\ sample("east") = sample("west")) => last.data = 0

\* a repeated get_slope call answered from the cache, on sloping ground whose
\* centre sample differs from the north sample
C12_Witness ==
    /\ last.kind = "call"
    /\ last.fn = "get_slope"
    /\ radius = DefaultRadius
    /\ ~last.invoked
    /\ last.data > 0
    /\ SampleElevation("center") # SampleElevation("north")

\* C13: with no zone map, the zone of elevation e is 5 below 10, 4 from 10 to
\* below 30, 3 from 30 to below 60, 2 from 60 to below 100 and 1 from 100 on;
\* it never rises with e, and get_vulnerability_zone and compute_ksdma_zones
\* give the same zone for every elevation, negative ones and thresholds included.
C13_ZoneStepFunction ==
    last.kind = "zone" =>
        /\ last.serving = (CASE last.e < 10 -> 5
                             [] last.e >= 10 /\ last.e < 30 -> 4
                             [] last.e >= 30 /\ last.e < 60 -> 3
                             [] last.e >= 60 /\ last.e < 100 -> 2
                             [] last.e >= 100 -> 1)
        /\ last.training = last.serving
        /\ \A higher \in last.e..MaxElev :
               /\ compute_ksdma_zones(<<higher>>)[1] <= last.training
               /\ get_vulnerability_zone(<< >>, 0, Response(StatusOK, TRUE, <<higher>>),
                                         None).data <= last.serving

\* the threshold 10 has been classified, as zone 4 by both functions
C13_Witness ==
    /\ last.kind = "zone"
    /\ last.e = 10
    /\ last.serving = 4
    /\ last.training = 4

\* C14: get_vulnerability_zone returns an integer in 1..5 whatever the
\* elevation and whatever the loaded zone map declares.
C14_ZoneInRange ==
    (last.kind = "call" /\ last.fn = "get_vulnerability_zone") => last.data \in 1..5

\* C15: with a zone map loaded, get_vulnerability_zone returns the level
\* declared by the earliest-listed feature whose polygon contains the point,
\* and 3 when no polygon contains it.
C15_FirstContainingWins ==
    (last.kind = "call" /\ last.fn = "get_vulnerability_zone" /\ zones_data # None)
        => IF Containing = {} THEN last.data = 3
           ELSE LET declared == zones_data.features[FirstOf(Containing)].vulnerability
                IN  declared \notin {Absent, NonNumeric, Null} => last.data = declared

\* two listed polygons contain the point and declare different levels; the
\* earlier one's level was returned
C15_Witness ==
    /\ last.kind = "call"
    /\ last.fn = "get_vulnerability_zone"
    /\ zones_data # None
    /\ Cardinality(Containing) = 2
    /\ zones_data.features[1].vulnerability = 5
    /\ zones_data.features[2].vulnerability = 1
    /\ last.data = 5

\* C16: a feature without a usable geometry is skipped wherever it is listed:
\* get_vulnerability_zone returns the level of the first well-formed polygon
\* containing the point (3 when there is none), and get_flood_frequency returns
\* the number of well-formed polygons containing the point.
C16_MalformedFeatureSkipped ==
    /\ (last.kind = "call" /\ last.fn = "get_vulnerability_zone")
           => last.data = IF Containing = {} THEN 3
                          ELSE zones_data.features[FirstOf(Containing)].vulnerability
    /\ (last.kind = "call" /\ last.fn = "get_flood_frequency")
           => last.data = Cardinality({i \in 1..Len(flood_data.features) :
                                          flood_data.features[i] = "in"})

\* C17: with an empty waterway index, or none of its nodes inside the
\* prefilter box of the query point, compute_river_distances returns 10.0 km
\* and compute_drainage_density returns 0 without raising; the serving queries
\* return 10.0 km and 0 when the provider's answer has no elements.
C17_EmptyIndexFallbacks ==
    last.kind = "call" =>
        /\ (/\ last.fn = "compute_river_distances"
            /\ \A i \in 1..Len(Nodes) : Abs(Nodes[i]) >= 500) => last.data = 10000
        /\ (/\ last.fn = "compute_drainage_density"
            /\ \A i \in 1..Len(Nodes) : Abs(Nodes[i]) * 111 >= 1500) => last.data = 0
        /\ (/\ last.fn = "get_nearest_river_distance"
            /\ last.invoked /\ last.status = StatusOK /\ last.elements = << >>)
               => last.data = 10000
        /\ (/\ last.fn = "get_drainage_density"
            /\ last.invoked /\ last.status = StatusOK /\ last.elements = << >>)
               => last.data = 0

\* C18: for the same waterway geometry around a coordinate, get_drainage_density
\* (serving) and compute_drainage_density (training) return the same density,
\* and both fall back to the same value when they have no data.
C18_SameDensityMeasure ==
    (last.kind = "call" /\ last.fn = "get_drainage_density" /\ last.invoked)
        => /\ (last.status = StatusOK /\ waterways # << >>)
                  => last.data = compute_drainage_density(Nodes)
           /\ last.status # StatusOK => last.data = 0

\* C19: a POST to /predict-by-location whose body lacks latitude or longitude
\* (a null body and an empty object included, model loaded or not) is answered
\* with a 4xx status.
C19_MissingFieldsRejected ==
    (/\ last.kind = "request"
     /\ \/ last.body = NoBody
        \/ last.body.latitude = Null
        \/ last.body.longitude = Null)
        => last.status \in 400..499

\* C20: every external network call on the serving and enrichment paths is
\* made with an explicit timeout, so no operation can wait on a silent
\* provider for ever.
C20_EveryCallHasTimeout ==
    net # None => net.timeout # NoTimeout

\* C21: for N coordinates and batch size B, fetch_elevations_batch sends one
\* batch request per batch, ceil(N/B) in all when it returns, and at most one
\* single-point request per coordinate, so never more than ceil(N/B) + N requests.
C21_RequestCount ==
    LET ceil == (n_coords + batch_size - 1) \div batch_size
        singles == IF n_coords = 0 THEN 0
                   ELSE Cardinality({k \in 1..n_coords : requests.single[k] > 0})
    IN  /\ requests.batch <= ceil
        /\ pc = "done" => requests.batch = ceil
        /\ \A k \in 1..n_coords : requests.single[k] <= 1
        /\ requests.batch + singles <= ceil + n_coords

\* three coordinates in batches of two, both batch requests answered 414:
\* two batch requests and one single-point request per coordinate
C21_Witness ==
    /\ pc = "done"
    /\ n_coords = 3
    /\ batch_size = 2
    /\ requests.batch = 2
    /\ \A k \in 1..n_coords : requests.single[k] = 1

\* C22: when two workers call the same cached function with the same key, at
\* most one of them is between the failed lookup and the store at any time, and
\* two workers that have both returned without an expiry in between hold the
\* same value.
C22_MutualExclusion ==
    /\ Cardinality({w \in Workers : workers[w].pc = "computing"}) <= 1
    /\ (ticks = 0 /\ \A w \in Workers : workers[w].pc = "returned"
                                          /\ workers[w].result # Raise)
           => workers[1].result = workers[2].result

\* C23: a get_slope call for the same latitude, longitude and radius is a cache
\* hit whenever an earlier call for them, written in any form (radius left at
\* its default, passed positionally or by keyword), is still inside its window.
C23_SameArgumentsSameKey ==
    (last.kind = "call" /\ last.fn = "get_slope")
        => \A form \in CallForms :
               LET key == SlopeKey(form, radius)
               IN  (/\ key \in DOMAIN last.pre_store
                    /\ last.t - last.pre_store[key].timestamp < ElevationExpiryHours * 3600)
                       => ~last.invoked

\* C24: right after clear_cache() the statistics report no entry and no key and
\* a call of any cached function, at any time, invokes the wrapped function;
\* a step that is not a clear never removes a key; and total_entries is always
\* the length of cache_keys.
C24_ClearedState ==
    last.kind = "clear"
        => /\ get_cache_stats(cache_store).total_entries = 0
           /\ get_cache_stats(cache_store).cache_keys = << >>
           /\ \A fname \in CachedNames, outcome \in (1..MaxVal) \cup {Raise}, d \in {0} \cup Jumps(expiry_hours) :
                  wrapper(cache_store, CacheKey(fname, <<1, 1>>, << >>), expiry_hours, now + d,
                          Leaf(cache_store, outcome)).invoked

C24_StatsAgree ==
    last.kind = "stats" => last.stats.total_entries = Len(last.stats.cache_keys)

C24_KeysOnlyGrow ==
    (last'.kind # "clear") => (DOMAIN cache_store \subseteq DOMAIN cache_store')

C24_ClearAndStats == [](C24_ClearedState /\ C24_StatsAgree) /\ [][C24_KeysOnlyGrow]_vars

\* clear_cache() has emptied a cache that held both functions' entries
C24_Witness == last.kind = "clear" /\ last.before = 2 /\ cache_store = << >>

\* C25: constructing KSDMAZones or SentinelProcessor never raises, whatever is
\* at the data path; an instance whose file was absent or unparsable at load
\* holds no data from then on, even when the file appears later, and its
\* queries compute the heuristic rule (zone from elevation, count from
\* elevation and zone); the loaded data of an instance never changes.
C25_FallbackMode(c) ==
    (constructed[c] # None /\ constructed[c].state # "present")

C25_LoadNeverRaises ==
    /\ last.kind = "construct" => ~last.raised
    /\ C25_FallbackMode("ksdma_zones") => zones_data = None
    /\ C25_FallbackMode("sentinel_processor") => flood_data = None
    /\ (last.kind = "call" /\ last.invoked /\ last.fn = "get_vulnerability_zone"
            /\ C25_FallbackMode("ksdma_zones"))
           => last.data = ZoneOfElevation(get_elevation(last.pre_store, last.t, last.resp).data)
    /\ (last.kind = "call" /\ last.invoked /\ last.fn = "get_flood_frequency"
            /\ C25_FallbackMode("sentinel_processor"))
           => LET e == get_elevation(last.pre_store, last.t, last.resp)
                  z == get_vulnerability_zone(e.store, last.t, last.resp, zones_data)
              IN  last.data = IF e.data < 10 /\ z.data >= 4 THEN 3
                              ELSE IF e.data < 30 /\ z.data >= 3 THEN 1
                              ELSE 0

C25_ModeIsFixed ==
    /\ constructed["ksdma_zones"] # None => zones_data' = zones_data
    /\ constructed["sentinel_processor"] # None => flood_data' = flood_data

C25_LoadFallback == []C25_LoadNeverRaises /\ [][C25_ModeIsFixed]_vars

\* an instance loaded from an unparsable file answers a query after the file
\* has been replaced by a readable one
C25_Witness ==
    /\ last.kind = "call" /\ last.invoked /\ last.fn = "get_vulnerability_zone"
    /\ constructed["ksdma_zones"] = FileUnparsable
    /\ files["ksdma_zones"].state = "present"

\* C26: when the local waterway file is missing, the bulk enrichment still
\* ends with an output file holding one row per input row, each with
\* river_distance 10.0 km, drainage_density 0 and the row's computed
\* elevation, slope and zone.
C26_MissingFileStillWrites ==
    (enrich.pc = "done" /\ enrich.file = FileAbsent)
        => /\ ~enrich.raised
           /\ enrich.output # None
           /\ Len(enrich.output) = enrich.rows
           /\ \A i \in 1..enrich.rows :
                  /\ enrich.output[i].river_distance = RiverFallbackM
                  /\ enrich.output[i].drainage_density = 0
                  /\ enrich.output[i].elevation = enrich.elevations[i]
                  /\ enrich.output[i].slope = enrich.slopes[i]
                  /\ enrich.output[i].ksdma_zone = enrich.ksdma[i]

\* C27: with no footprint data, a computed get_flood_frequency is 3 when the
\* elevation it read is below 10 and the zone it read is at least 4, otherwise
\* 1 when the elevation is below 30 and the zone at least 3, otherwise 0, for
\* every zone in 1..5; every answer, computed or cached, is 0, 1 or 3.
C27_HeuristicRule ==
    (last.kind = "call" /\ last.fn = "get_flood_frequency" /\ flood_data = None)
        => /\ last.data \in {0, 1, 3}
           /\ last.invoked =>
                  LET e == get_elevation(last.pre_store, last.t, last.resp)
                      z == get_vulnerability_zone(e.store, last.t, last.resp, zones_data)
                  IN  z.data \in 1..5 =>
                          last.data = (IF e.data < 10 /\ z.data >= 4 THEN 3
                                       ELSE IF e.data < 30 /\ z.data >= 3 THEN 1
                                       ELSE 0)

\* a computed answer for an elevation of exactly 10 m in a zone of level 4:
\* the first threshold is missed, the second applies
C27_Witness ==
    /\ last.kind = "call" /\ last.fn = "get_flood_frequency" /\ last.invoked
    /\ last.resp.list = <<10>>
    /\ zones_data # None
    /\ zones_data.features[1].vulnerability = 4
    /\ last.data = 1

\* C28: both extraction scripts and get_flood_events_detail label a flood
\* count by one rule, Low iff the count is 0, Medium iff it is 1, High iff it
\* is 2 or more; the Kochi fixture (flooded in 2019 only, elevation 5 m) has
\* count 1, fallback zone 5 and label Medium.
C28_RuleHolds(count, label) ==
    /\ label = "Low" <=> count = 0
    /\ label = "Medium" <=> count = 1
    /\ label = "High" <=> count >= 2

C28_OneLabelRule ==
    /\ last.kind = "label"
           => /\ C28_RuleHolds(last.count, last.raster)
              /\ C28_RuleHolds(last.count, last.vector)
              /\ (last.flags = <<0, 1, 0>> /\ last.elevation = 5)
                     => (last.count = 1 /\ last.zone = 5 /\ last.raster = "Medium"
                            /\ last.vector = "Medium")
    /\ (last.kind = "call" /\ last.fn = "get_flood_events_detail")
           => C28_RuleHolds(last.data.total_events, last.data.risk_category)

\* the Kochi fixture has been labelled
C28_Witness ==
    last.kind = "label" /\ last.flags = <<0, 1, 0>> /\ last.elevation = 5 /\ last.raster = "Medium"

\* C29: the list always has one value per coordinate, and one iteration of the
\* batch loop, whatever the provider answers, changes no value at an index
\* outside the batch it requested.
C29_OtherBatchesUntouched ==
    [][last'.kind = "batch"
           => /\ Len(elevations') = n_coords
              /\ \A k \in 1..n_coords :
                     (k <= last'.i \/ k > last'.i + last'.len) => elevations'[k] = elevations[k]]_vars

\* C30: generate_non_flood_samples makes at most num_samples * 50 attempts and
\* then returns its list without raising, also when the list is empty, and
\* every record of the list has the three flags 0, count 0 and risk 'Low'.
C30_ReturnsWithoutRaising ==
    /\ sampling.attempts <= sampling.num_samples * AttemptFactor
    /\ \A i \in 1..Len(sampling.non_flood_points) :
           sampling.non_flood_points[i] = NonFloodRecord
    /\ sampling.pc # "loop" => ~sampling.raised

====
